---- MODULE Spec2Model ----
(***************************************************************************)
(* The blog backend of AI_CDK_project: the create-post and get-posts       *)
(* Lambda handlers (src/lambda/create-post.ts) against the DynamoDB table  *)
(* "blog-posts" and its StatusIndex (src/lib/database-stack.ts).           *)
(*                                                                         *)
(* A text (a JavaScript string) is kept run-length encoded: a sequence of  *)
(* runs [ch, n], n >= 1 copies of the character ch, adjacent runs having   *)
(* different characters.  The encoding is exact, and lets the length       *)
(* limits 200 and 10000 of the validator be reached.                       *)
(***************************************************************************)
EXTENDS Integers, Sequences, FiniteSets, TLC

(***************************************************************************)
(* Bounds of the model.                                                    *)
(***************************************************************************)
NumInv == 2         \* concurrent create-post invocations
MaxId == 0          \* uuidv4() returns a value in 0..MaxId
MaxTime == 1        \* new Date() returns a value in 0..MaxTime
MaxRuns == 2        \* runs of a text in a request
MaxProbeRuns == 3   \* runs of a text given to sanitizeInput alone
MaxFeed == 57       \* posts of the largest table SpecList starts from
MaxLag == 2         \* written posts the index may lack when SpecList starts
MaxStored == 2      \* posts of the largest table SpecFair starts from

(***************************************************************************)
(* Program constants.                                                      *)
(***************************************************************************)
maxAttempts == 3
MaxTitleLength == 200
MaxContentLength == 10000
QueryLimit == 50

\* ------------------------------------------------------------------------
\* Texts
\* ------------------------------------------------------------------------
Run(c, k) == [ch |-> c, n |-> k]

EmptyText == << >>

IsWhitespace(c) == c = " "

IsAngle(c) == c \in {"<", ">"}

RECURSIVE TextLength(_)
\* String.prototype.length
TextLength(t) == IF t = << >> THEN 0 ELSE Head(t).n + TextLength(Tail(t))

RECURSIVE Merge(_)
\* Joins adjacent runs of one character (keeps the encoding canonical).
Merge(t) ==
  IF Len(t) < 2 THEN t
  ELSE IF t[1].ch = t[2].ch
       THEN Merge(<<Run(t[1].ch, t[1].n + t[2].n)>> \o SubSeq(t, 3, Len(t)))
       ELSE <<t[1]>> \o Merge(Tail(t))

RECURSIVE Lit(_)
\* The text of a sequence of characters.
Lit(cs) == IF cs = << >> THEN << >> ELSE Merge(<<Run(Head(cs), 1)>> \o Lit(Tail(cs)))

RECURSIVE TrimStart(_)
TrimStart(t) ==
  IF t # << >> /\ IsWhitespace(Head(t).ch) THEN TrimStart(Tail(t)) ELSE t

RECURSIVE TrimEnd(_)
TrimEnd(t) ==
  IF t # << >> /\ IsWhitespace(t[Len(t)].ch) THEN TrimEnd(SubSeq(t, 1, Len(t) - 1)) ELSE t

\* String.prototype.trim
trim(t) == TrimEnd(TrimStart(t))

KeptOnlyLt(r) == r.ch # "<"

\* The runs that replace(/[<>]/g, '') keeps.
Kept(r) == ~IsAngle(r.ch)

\* input.replace(/[<>]/g, '')
replaceAngle(t) == Merge(SelectSeq(t, Kept))

\* sanitizeInput: input.trim().replace(/[<>]/g, '')
sanitizeInput(input) == replaceAngle(trim(input))

\* ------------------------------------------------------------------------
\* JSON values and request bodies
\* ------------------------------------------------------------------------
\* A JSON value (or the absent property, undefined): its type, its text when
\* it is a string, its number when it is a number or a boolean (1 true).
Undefined == [t |-> "undefined", s |-> EmptyText, n |-> 0]

Null == [t |-> "null", s |-> EmptyText, n |-> 0]

Bool(b) == [t |-> "boolean", s |-> EmptyText, n |-> IF b THEN 1 ELSE 0]

Num(k) == [t |-> "number", s |-> EmptyText, n |-> k]

Str(x) == [t |-> "string", s |-> x, n |-> 0]

\* JavaScript truthiness of a value (the operand of ! and of && and ||).
Truthy(v) ==
  CASE v.t = "undefined" -> FALSE
    [] v.t = "null" -> FALSE
    [] v.t = "boolean" -> v.n # 0
    [] v.t = "number" -> v.n # 0
    [] v.t = "string" -> v.s # EmptyText
    [] OTHER -> TRUE

\* typeof v === 'string'
IsString(v) == v.t = "string"

Draft == Lit(<<"d", "r", "a", "f", "t">>)

Published == Lit(<<"p", "u", "b", "l", "i", "s", "h", "e", "d">>)

\* The result of JSON.parse: an object with the properties the handler
\* reads, the value null, or another non-object value (number, string,
\* array), whose properties all read as undefined.  tags is a property the
\* documented request carries and the handler does not read.
Obj(ti, co, st) ==
  [kind |-> "object", title |-> ti, content |-> co, status |-> st, tags |-> Undefined]

NullBody ==
  [kind |-> "null", title |-> Undefined, content |-> Undefined, status |-> Undefined,
   tags |-> Undefined]

OtherBody ==
  [kind |-> "other", title |-> Undefined, content |-> Undefined, status |-> Undefined,
   tags |-> Undefined]

\* The array of k strings x.
Arr(x, k) == [t |-> "array", s |-> x, n |-> k]

\* The object body with the property tags set.
WithTags(body, tags) == [body EXCEPT !.tags = tags]

\* event.body: null, or a string that is empty, malformed, or JSON text.
AbsentRaw == [form |-> "absent", value |-> Obj(Undefined, Undefined, Undefined)]

EmptyRaw == [form |-> "empty", value |-> Obj(Undefined, Undefined, Undefined)]

MalformedRaw == [form |-> "malformed", value |-> Obj(Undefined, Undefined, Undefined)]

Json(b) == [form |-> "json", value |-> b]

\* JSON.parse(event.body || '{}') throws a SyntaxError
ParseThrows(raw) == raw.form = "malformed"

\* JSON.parse(event.body || '{}'): a null or empty event.body parses as {}.
JSONparse(raw) ==
  IF raw.form \in {"absent", "empty"} THEN Obj(Undefined, Undefined, Undefined) ELSE raw.value

\* Reading a property of null throws a TypeError.
PropertyReadThrows(body) == body.kind = "null"

\* ------------------------------------------------------------------------
\* validatePostData
\* ------------------------------------------------------------------------
TitleRequired == "Title is required and must be a non-empty string"

TitleTooLong == "Title must be less than 200 characters"

ContentRequired == "Content is required and must be a non-empty string"

ContentTooLong == "Content must be less than 10,000 characters"

StatusInvalid == "Status must be either \"draft\" or \"published\""

\* !v || typeof v !== 'string' || v.trim().length === 0
Blank(v) == ~Truthy(v) \/ ~IsString(v) \/ TextLength(trim(v.s)) = 0

\* The title rule with >= 200 for > 200.
TitleErrorsOffByOne(body) ==
  IF Blank(body.title) THEN <<TitleRequired>>
  ELSE IF TextLength(trim(body.title.s)) >= MaxTitleLength THEN <<TitleTooLong>>
  ELSE << >>

TitleErrors(body) ==
  IF Blank(body.title) THEN <<TitleRequired>>
  ELSE IF TextLength(trim(body.title.s)) > MaxTitleLength THEN <<TitleTooLong>>
  ELSE << >>

ContentErrors(body) ==
  IF Blank(body.content) THEN <<ContentRequired>>
  ELSE IF TextLength(trim(body.content.s)) > MaxContentLength THEN <<ContentTooLong>>
  ELSE << >>

\* ['draft', 'published'].includes(v)
IsStatusName(v) == IsString(v) /\ v.s \in {Draft, Published}

StatusErrors(body) ==
  IF Truthy(body.status) /\ ~IsStatusName(body.status) THEN <<StatusInvalid>> ELSE << >>

validatePostData(body) ==
  LET errors == TitleErrors(body) \o ContentErrors(body) \o StatusErrors(body)
  IN  [isValid |-> Len(errors) = 0, errors |-> errors]

\* ------------------------------------------------------------------------
\* State
\* ------------------------------------------------------------------------
VARIABLES
  store,      \* the items of the table blog-posts
  index,      \* the items the StatusIndex has received so far
  inv,        \* the create-post invocations: position, request, post in flight, response
  listResp,   \* the response of the get-posts invocation that returned in the last step
  nodeEnv,    \* process.env.NODE_ENV
  probe,      \* a text under sanitizeInput (used by SpecFn only)
  deployed    \* the nested stacks of PersonalBlogStack that have been deployed

vars == <<store, index, inv, listResp, nodeEnv, probe, deployed>>

Inv == 1..NumInv

PostIds == 0..MaxId

Times == 0..MaxTime

NodeEnvs == {"development", "production", "test"}

NoPost ==
  [postId |-> -1, createdAt |-> -1, title |-> EmptyText, content |-> EmptyText,
   status |-> EmptyText, updatedAt |-> -1]

NoMessage == "undefined"

NoResp == [statusCode |-> 0, error |-> "", details |-> << >>, message |-> NoMessage, post |-> NoPost]

NoError == "none"

\* array: the body is a JSON array, whose entries are items.
NoListResp ==
  [statusCode |-> 0, array |-> FALSE, items |-> << >>, message |-> NoMessage,
   error |-> NoError]

Idle ==
  [pc |-> "idle", req |-> AbsentRaw, post |-> NoPost, attempts |-> 0,
   error |-> NoError, resp |-> NoResp]

NoProbe == [step |-> 0, arg |-> EmptyText, once |-> EmptyText, twice |-> EmptyText]

\* process.env.NODE_ENV !== 'production' ? errorMessage : undefined
DetailUnlessProduction(errorMessage) ==
  IF nodeEnv # "production" THEN errorMessage ELSE NoMessage

\* process.env.NODE_ENV === 'development' ? errorMessage : undefined
DetailMessage(errorMessage) == IF nodeEnv = "development" THEN errorMessage ELSE NoMessage

\* The primary key of the table: partition key postId, sort key createdAt.
KeyOf(p) == <<p.postId, p.createdAt>>

\* ------------------------------------------------------------------------
\* PersonalBlogStack
\* ------------------------------------------------------------------------
\* new DatabaseStack(this, 'DatabaseStack'), new ApiStack(this, 'ApiStack', ..),
\* new FrontendStack(this, 'FrontendStack', ..)
NestedStacks == {"DatabaseStack", "ApiStack", "FrontendStack"}

\* A main stack that declares no dependency between its nested stacks.
NoDependencies(s) == {}

\* apiStack.addDependency(databaseStack); frontendStack.addDependency(apiStack)
DependsOn(s) ==
  CASE s = "ApiStack" -> {"DatabaseStack"}
    [] s = "FrontendStack" -> {"ApiStack"}
    [] OTHER -> {}

\* The deployment creates a nested stack once the stacks it depends on exist.
Deploy(s) ==
  /\ s \notin deployed
  /\ DependsOn(s) \subseteq deployed
  /\ deployed' = deployed \cup {s}
  /\ listResp' = NoListResp
  /\ UNCHANGED <<store, index, inv, nodeEnv, probe>>

\* The functions and the REST API belong to ApiStack.
ApiDeployed == "ApiStack" \in deployed

\* ------------------------------------------------------------------------
\* create-post handler
\* ------------------------------------------------------------------------
\* The response when the SyntaxError of JSON.parse reaches the outer catch.
ParseErrorUncaught ==
  [statusCode |-> 500, error |-> "Failed to create post", details |-> << >>,
   message |-> NoMessage, post |-> NoPost]

ParseErrorResponse ==
  [statusCode |-> 400, error |-> "Invalid JSON in request body", details |-> << >>,
   message |-> NoMessage, post |-> NoPost]

ValidationResponse(errors) ==
  [statusCode |-> 400, error |-> "Validation failed", details |-> errors,
   message |-> NoMessage, post |-> NoPost]

CreatedResponse(post) ==
  [statusCode |-> 201, error |-> "", details |-> << >>, message |-> NoMessage, post |-> post]

ConflictResponse ==
  [statusCode |-> 409, error |-> "Post with this ID already exists", details |-> << >>,
   message |-> NoMessage, post |-> NoPost]

\* A catch block that answers an error with an empty success.
FailureSwallowed(errorMessage) ==
  [statusCode |-> 200, error |-> "", details |-> << >>,
   message |-> NoMessage, post |-> NoPost]

CreateFailedResponse(errorMessage) ==
  [statusCode |-> 500, error |-> "Failed to create post", details |-> << >>,
   message |-> DetailMessage(errorMessage), post |-> NoPost]

\* The handler has returned response r to request raw, after catching the
\* error named e (NoError when nothing was thrown).
Done(raw, e, r) ==
  [pc |-> "done", req |-> raw, post |-> NoPost, attempts |-> 0, error |-> e, resp |-> r]

\* A catch block without the branch for ConditionalCheckFailedException.
CatchAllAs500(raw, e, errorMessage) == Done(raw, e, CreateFailedResponse(errorMessage))

\* The catch block of the handler.
Catch(raw, e, errorMessage) ==
  IF e = "ConditionalCheckFailedException"
    THEN Done(raw, e, ConflictResponse)
    ELSE Done(raw, e, CreateFailedResponse(errorMessage))

StatusOrPublished(body) == IF Truthy(body.status) THEN body.status.s ELSE Published

\* body.status || 'draft'
StatusOrDraft(body) == IF Truthy(body.status) THEN body.status.s ELSE Draft

NewPost(body, postId, createdAt) ==
  [postId |-> postId, createdAt |-> createdAt,
   title |-> sanitizeInput(body.title.s), content |-> sanitizeInput(body.content.s),
   status |-> StatusOrDraft(body), updatedAt |-> createdAt]

\* The handler up to its await: parse, validate, build the post.
\* uuid and now are the values of uuidv4() and new Date().
\* Invocations are numbered in the order they arrive.
createPost_start(i, raws) ==
  /\ inv[i].pc = "idle"
  /\ \A j \in Inv : j < i => inv[j].pc # "idle"
  /\ \E raw \in raws :
       LET body == JSONparse(raw)
           validation == validatePostData(body)
       IN  IF ParseThrows(raw)
             THEN inv' = [inv EXCEPT ![i] = Done(raw, "SyntaxError", ParseErrorResponse)]
           ELSE IF PropertyReadThrows(body)
             THEN inv' = [inv EXCEPT ![i] =
                            Catch(raw, "TypeError", "Cannot read properties of null")]
           ELSE IF ~validation.isValid
             THEN inv' = [inv EXCEPT ![i] =
                            Done(raw, NoError, ValidationResponse(validation.errors))]
           ELSE \E uuid \in PostIds, now \in Times :
                  inv' = [inv EXCEPT ![i] =
                            [pc |-> "sending", req |-> raw, post |-> NewPost(body, uuid, now),
                             attempts |-> 0, error |-> NoError, resp |-> NoResp]]
  /\ listResp' = NoListResp
  /\ UNCHANGED <<store, index, nodeEnv, probe, deployed>>

\* A PutCommand without ConditionExpression.
ConditionAbsent(item) == FALSE

\* ConditionExpression attribute_not_exists(postId): evaluated on the item that
\* has the primary key (postId, createdAt) of the new item, if there is one.
ConditionFails(item) == \E r \in store : KeyOf(r) = KeyOf(item)

\* PutItem: the new item replaces the item of the same primary key, if any.
PutItem(item) == {r \in store : KeyOf(r) # KeyOf(item)} \cup {item}

\* One attempt of docClient.send(new PutCommand(...)) and what follows it.
\* attempts counts the failed attempts of the call in flight.
createPost_send(i) ==
  /\ inv[i].pc = "sending"
  /\ \/ \* the store answers the request
        /\ IF ConditionFails(inv[i].post)
             THEN /\ inv' = [inv EXCEPT ![i] =
                          Catch(inv[i].req, "ConditionalCheckFailedException",
                                "The conditional request failed")]
                  /\ UNCHANGED store
             ELSE /\ inv' = [inv EXCEPT ![i] =
                          Done(inv[i].req, NoError, CreatedResponse(inv[i].post))]
                  /\ store' = PutItem(inv[i].post)
     \/ \* the attempt fails (store unreachable, throttled): retried up to maxAttempts
        /\ inv' = [inv EXCEPT ![i] =
             IF inv[i].attempts + 1 < maxAttempts
               THEN [@ EXCEPT !.attempts = @ + 1]
               ELSE Catch(inv[i].req, "ServiceUnavailable", "ServiceUnavailable")]
        /\ UNCHANGED store
  /\ listResp' = NoListResp
  /\ UNCHANGED <<index, nodeEnv, probe, deployed>>

\* ------------------------------------------------------------------------
\* StatusIndex and the get-posts handler
\* ------------------------------------------------------------------------
\* An index that never receives the written items.
IndexNeverFilled ==
  /\ store \ index # {}
  /\ listResp' = NoListResp
  /\ UNCHANGED <<store, index, inv, nodeEnv, probe, deployed>>

\* The global secondary index receives a written item some time after the table.
StatusIndexPropagate ==
  /\ \E r \in store \ index : index' = index \cup {r}
  /\ listResp' = NoListResp
  /\ UNCHANGED <<store, inv, nodeEnv, probe, deployed>>

\* A query that reads every partition of the index.
NoKeyCondition(r) == TRUE

\* KeyConditionExpression '#status = :status' with :status = 'published'
KeyCondition(r) == r.status = Published

\* ScanIndexForward: true.
Oldest(S) == {m \in S : \A r \in S : m.createdAt <= r.createdAt}

Newest(S) == {m \in S : \A r \in S : r.createdAt <= m.createdAt}

RECURSIVE Descending(_)
\* ScanIndexForward: false. The orders of S by createdAt descending (items of
\* equal createdAt come in any order).
Descending(S) ==
  IF S = {} THEN {<< >>}
  ELSE UNION {{<<m>> \o rest : rest \in Descending(S \ {m})} : m \in Newest(S)}

\* A query that takes no Limit.
NoLimit(a, b) == b

Min(a, b) == IF a < b THEN a ELSE b

\* The results of the QueryCommand on StatusIndex.
QueryResults ==
  {SubSeq(q, 1, Min(QueryLimit, Len(q))) : q \in Descending({r \in index : KeyCondition(r)})}

\* The outputs of the QueryCommand. Items is an optional member of the output:
\* an output with no matching item may come without it.
QueryOutputs ==
  {[hasItems |-> TRUE, Items |-> q] : q \in QueryResults}
  \cup {[hasItems |-> FALSE, Items |-> q] : q \in {e \in QueryResults : e = << >>}}

\* JSON.stringify(result.Items)
ItemsAsIs(result) == [array |-> result.hasItems, items |-> result.Items]

\* JSON.stringify(result.Items || [])
ItemsOrEmpty(result) == [array |-> TRUE, items |-> result.Items]

ListResponse(result) ==
  [statusCode |-> 200, array |-> ItemsOrEmpty(result).array,
   items |-> ItemsOrEmpty(result).items, message |-> NoMessage, error |-> NoError]

ListFailedResponse(errorName, errorMessage) ==
  [statusCode |-> 500, array |-> FALSE, items |-> << >>,
   message |-> DetailMessage(errorMessage), error |-> errorName]

getPosts ==
  /\ \/ \E result \in QueryOutputs : listResp' = ListResponse(result)
     \/ listResp' = ListFailedResponse("ServiceUnavailable", "ServiceUnavailable")
  /\ UNCHANGED <<store, index, inv, nodeEnv, probe, deployed>>

\* ------------------------------------------------------------------------
\* Requests
\* ------------------------------------------------------------------------
Alphabet == {"a", " ", "<", ">"}

\* Run lengths of the input texts: single characters and runs that reach limit.
RunLengths(limit) == {1, limit}

RECURSIVE Texts(_, _)
\* The texts of at most k runs.
Texts(limit, k) ==
  IF k = 0 THEN {EmptyText}
  ELSE LET shorter == Texts(limit, k - 1)
       IN  shorter \cup
           {Append(t, Run(c, n)) : t \in {u \in shorter : Len(u) = k - 1},
                                   c \in Alphabet, n \in RunLengths(limit)}

Canonical(t) == \A k \in 1..(Len(t) - 1) : t[k].ch # t[k + 1].ch

InputTexts(limit, k) == {t \in Texts(limit, k) : Canonical(t)}

A == Lit(<<"a">>)

NonText == {Undefined, Null, Num(0), Num(5), Bool(TRUE)}

TitleValues == NonText \cup {Str(t) : t \in InputTexts(MaxTitleLength, MaxRuns)}

ContentValues == NonText \cup {Str(t) : t \in InputTexts(MaxContentLength, MaxRuns)}

StatusValues ==
  {Undefined, Null, Bool(FALSE), Bool(TRUE), Num(0), Str(EmptyText),
   Str(Draft), Str(Published), Str(A)}

CoreValues == {Undefined, Str(A), Str(Lit(<<"<", " ", "a", ">">>))}

CoreTitles == CoreValues \cup {Str(<<Run("a", MaxTitleLength)>>)}

CoreContents == CoreValues \cup {Str(<<Run("a", MaxContentLength)>>)}

CoreStatuses == {Undefined, Str(Published), Str(A)}

TagsValues == {Arr(A, 1), Arr(A, 2)}

\* The requests of SpecOne: every value of one property, with a few values of
\* the other two.
AllRaws ==
  {MalformedRaw, AbsentRaw, EmptyRaw, Json(NullBody), Json(OtherBody)}
  \cup {Json(Obj(t, c, s)) : t \in TitleValues, c \in CoreContents, s \in CoreStatuses}
  \cup {Json(Obj(t, c, s)) : t \in CoreTitles, c \in ContentValues, s \in CoreStatuses}
  \cup {Json(Obj(t, c, s)) : t \in CoreTitles, c \in CoreContents, s \in StatusValues}
  \cup {Json(WithTags(Obj(Str(A), Str(A), s), tags)) : s \in CoreStatuses, tags \in TagsValues}

\* The requests of Spec, where invocations run concurrently.
SampleRaws ==
  {MalformedRaw, AbsentRaw, Json(NullBody),
   Json(Obj(Str(A), Str(A), Undefined)),
   Json(Obj(Str(Lit(<<"<", " ", "a">>)), Str(Lit(<<"a", ">">>)), Str(Published)))}

\* ------------------------------------------------------------------------
\* Specifications
\* ------------------------------------------------------------------------
\* The deployed functions run with NODE_ENV = production.
Init ==
  /\ store = {}
  /\ index = {}
  /\ inv = [i \in Inv |-> Idle]
  /\ listResp = NoListResp
  /\ nodeEnv = "production"
  /\ probe = NoProbe
  /\ deployed = NestedStacks

Next ==
  \/ \E i \in Inv : createPost_start(i, SampleRaws)
  \/ \E i \in Inv : createPost_send(i)
  \/ StatusIndexPropagate
  \/ getPosts

\* Concurrent invocations on a few requests.
Spec == Init /\ [][Next]_vars

NextOne ==
  \/ createPost_start(1, AllRaws)
  \/ createPost_send(1)
  \/ StatusIndexPropagate
  \/ getPosts

InitOne ==
  /\ store = {}
  /\ index = {}
  /\ inv = [i \in Inv |-> Idle]
  /\ listResp = NoListResp
  /\ nodeEnv \in NodeEnvs
  /\ probe = NoProbe
  /\ deployed = NestedStacks

\* One create-post invocation on every request, in every NODE_ENV.
SpecOne == InitOne /\ [][NextOne]_vars

\* The k-th post of a feed: written at time k, every tenth one a draft.
FeedPost(k) ==
  [postId |-> k - 1, createdAt |-> k, title |-> A, content |-> A,
   status |-> IF k % 10 = 0 THEN Draft ELSE Published, updatedAt |-> k]

Feed(n) == {FeedPost(k) : k \in 1..n}

\* A table that holds up to MaxStored posts, of which the index has received
\* some.
InitFair ==
  /\ \E n \in 0..MaxStored : \E lag \in 0..MaxStored :
       /\ lag <= n
       /\ store = Feed(n)
       /\ index = Feed(n - lag)
  /\ inv = [i \in Inv |-> Idle]
  /\ listResp = NoListResp
  /\ nodeEnv = "production"
  /\ probe = NoProbe
  /\ deployed = NestedStacks

NextFair ==
  \/ createPost_start(1, SampleRaws)
  \/ createPost_send(1)
  \/ StatusIndexPropagate
  \/ getPosts

InitDeploy ==
  /\ store = {}
  /\ index = {}
  /\ inv = [i \in Inv |-> Idle]
  /\ listResp = NoListResp
  /\ nodeEnv = "production"
  /\ probe = NoProbe
  /\ deployed = {}

NextDeploy ==
  \/ \E s \in NestedStacks : Deploy(s)
  \/ ApiDeployed /\ createPost_start(1, SampleRaws)
  \/ ApiDeployed /\ createPost_send(1)
  \/ StatusIndexPropagate
  \/ ApiDeployed /\ getPosts

\* The deployment of the nested stacks, and the API in use once it exists.
SpecDeploy == InitDeploy /\ [][NextDeploy]_vars

\* An invocation that awaits the store is resumed: the client call returns or
\* throws.  The index receives every written item.
Fairness ==
  /\ WF_vars(createPost_send(1))
  /\ WF_vars(StatusIndexPropagate)

\* One create-post invocation on a table with posts, where the store call and
\* the index updates complete.
SpecFair == InitFair /\ [][NextFair]_vars /\ Fairness

\* A table that holds the first n posts of the feed, of which the index has
\* received all but the last few.
InitList ==
  /\ \E n \in 0..MaxFeed : \E lag \in 0..MaxLag :
       /\ lag <= n
       /\ store = Feed(n)
       /\ index = Feed(n - lag)
  /\ inv = [i \in Inv |-> Idle]
  /\ listResp = NoListResp
  /\ nodeEnv = "production"
  /\ probe = NoProbe
  /\ deployed = NestedStacks

NextList ==
  \/ StatusIndexPropagate
  \/ getPosts

\* get-posts on tables of every size up to MaxFeed.
SpecList == InitList /\ [][NextList]_vars

\* sanitizeInput applied to a text, and again to its result.
InitFn ==
  /\ store = {}
  /\ index = {}
  /\ inv = [i \in Inv |-> Idle]
  /\ listResp = NoListResp
  /\ nodeEnv = "production"
  /\ probe \in {[step |-> 0, arg |-> t, once |-> EmptyText, twice |-> EmptyText] :
                  t \in InputTexts(MaxTitleLength, MaxProbeRuns)}
  /\ deployed = NestedStacks

Sanitize ==
  /\ probe.step = 0
  /\ probe' = [probe EXCEPT !.step = 1, !.once = sanitizeInput(probe.arg)]
  /\ UNCHANGED <<store, index, inv, listResp, nodeEnv, deployed>>

SanitizeAgain ==
  /\ probe.step = 1
  /\ probe' = [probe EXCEPT !.step = 2, !.twice = sanitizeInput(probe.once)]
  /\ UNCHANGED <<store, index, inv, listResp, nodeEnv, deployed>>

NextFn == Sanitize \/ SanitizeAgain

SpecFn == InitFn /\ [][NextFn]_vars

\* ------------------------------------------------------------------------
\* Properties
\* ------------------------------------------------------------------------
Elems(q) == {q[k] : k \in 1..Len(q)}

Returned(i) == inv[i].pc = "done"

Status(i) == inv[i].resp.statusCode

Body(i) == JSONparse(inv[i].req)

Parsed(i) == inv[i].pc # "idle" /\ ~ParseThrows(inv[i].req)

\* C1: every request whose parsed body has a missing, non-text or blank title
\* is answered 400 with the title-required message among the details, and the
\* invocation never reaches the store.
C1_TitleRequired ==
  \A i \in Inv :
    (Parsed(i) /\ Blank(Body(i).title)) =>
      /\ Returned(i)
      /\ Status(i) = 400
      /\ TitleRequired \in Elems(inv[i].resp.details)

\* C2: a request whose raw body is not parseable JSON is answered 400 by the
\* handler itself (the parse error is caught where it is thrown), the invocation
\* never has a write in flight, and the step that receives it leaves the store
\* unchanged.
C2_MalformedRejected ==
  /\ [](\A i \in Inv :
          (inv[i].pc # "idle" /\ ParseThrows(inv[i].req)) =>
            /\ Returned(i)
            /\ Status(i) = 400
            /\ inv[i].resp.error = "Invalid JSON in request body"
            /\ inv[i].error = "SyntaxError"
            /\ inv[i].resp.post = NoPost)
  /\ [][\A i \in Inv :
          (inv[i].pc = "idle" /\ inv'[i].pc # "idle" /\ ParseThrows(inv'[i].req)) =>
            store' = store]_vars

C2_Witness ==
  \E i \in Inv : Returned(i) /\ ParseThrows(inv[i].req) /\ Status(i) = 400 /\ store = {}

Conflicted(i) == inv[i].error = "ConditionalCheckFailedException"

\* C3: when the store rejects the conditional write because an item with the
\* key of the new post exists, the handler answers 409, and the step leaves
\* the store, the existing item included, as it was.
C3_ConflictIs409 ==
  /\ [](\A i \in Inv : Conflicted(i) => (Returned(i) /\ Status(i) = 409))
  /\ [][\A i \in Inv :
          (inv[i].pc = "sending" /\ Conflicted(i)') =>
            /\ \E r \in store : KeyOf(r) = KeyOf(inv[i].post)
            /\ store' = store]_vars

C3_Witness ==
  \E i \in Inv : Conflicted(i) /\ Status(i) = 409 /\ store # {}

\* C4: no two items of the table have the same postId.
C4_UniquePostId ==
  \A r1, r2 \in store : r1.postId = r2.postId => r1 = r2

Created(i) == Returned(i) /\ Status(i) = 201

\* The invocation j has a write in flight for the key of the post that the
\* invocation i created.
SameKey(i, j) ==
  /\ i # j
  /\ Created(i)
  /\ inv[j].pc = "sending"
  /\ KeyOf(inv[j].post) = KeyOf(inv[i].resp.post)

\* C5 as claimed: of the invocations that target one key at most one is answered
\* 201, the item of the table is the post of that invocation, and every other
\* one is answered 409.
C5_OthersAll409 ==
  /\ [](\A i, j \in Inv :
          (i # j /\ Created(i) /\ Created(j)) =>
            KeyOf(inv[i].resp.post) # KeyOf(inv[j].resp.post))
  /\ [](\A i \in Inv : Created(i) => inv[i].resp.post \in store)
  /\ [][\A i, j \in Inv :
          (SameKey(i, j) /\ Returned(j)') => Status(j)' = 409]_vars

\* C5 amended: of the invocations that target one key at most one is answered
\* 201, the item of the table is the post of that invocation, and every other
\* one is answered 409, or 500 when its own call of the store failed.
C5_OthersNever201 ==
  /\ [](\A i, j \in Inv :
          (i # j /\ Created(i) /\ Created(j)) =>
            KeyOf(inv[i].resp.post) # KeyOf(inv[j].resp.post))
  /\ [](\A i \in Inv : Created(i) => inv[i].resp.post \in store)
  /\ [][\A i, j \in Inv :
          (SameKey(i, j) /\ Returned(j)') =>
            \/ Status(j)' = 409 /\ Conflicted(j)'
            \/ Status(j)' = 500 /\ inv'[j].error = "ServiceUnavailable"]_vars

\* The invocation that arrived second was answered 201 and the first one 409.
C5_Witness ==
  /\ Created(2) /\ Conflicted(1) /\ Status(1) = 409
  /\ \E r \in store : r = inv[2].resp.post

HasAngle(t) == \E k \in 1..Len(t) : IsAngle(t[k].ch)

\* C6: the title and the content of every item of the table and of every 201
\* response contain neither '<' nor '>'.
C6_NoAngleStored ==
  /\ \A r \in store : ~HasAngle(r.title) /\ ~HasAngle(r.content)
  /\ \A i \in Inv :
       Created(i) => ~HasAngle(inv[i].resp.post.title) /\ ~HasAngle(inv[i].resp.post.content)

C6_Witness ==
  \E i \in Inv :
    /\ Created(i)
    /\ HasAngle(Body(i).title.s) /\ HasAngle(Body(i).content.s)
    /\ inv[i].resp.post \in store

\* C7: sanitizeInput applied to a result of sanitizeInput returns it unchanged.
C7_Idempotent == probe.step = 2 => probe.twice = probe.once

TitleLen(i) == TextLength(trim(Body(i).title.s))

ContentLen(i) == TextLength(trim(Body(i).content.s))

\* The request of i fails no rule of the validator other than the length rules.
WellFormed(i) ==
  /\ Parsed(i)
  /\ Body(i).kind = "object"
  /\ IsString(Body(i).title) /\ TitleLen(i) > 0
  /\ IsString(Body(i).content) /\ ContentLen(i) > 0
  /\ \/ Body(i).status = Undefined
     \/ Body(i).status \in {Str(Draft), Str(Published)}

\* C8: a request with a title of at most 200 and a content of at most 10000
\* characters after trimming is never answered 400, and is answered 201 when
\* the store takes the write; beyond 200 it is answered 400 with the
\* title-length message, beyond 10000 with the content-length message. The
\* lengths are those of the trimmed texts, '<' and '>' included.
C8_LengthLimits ==
  \A i \in Inv :
    WellFormed(i) =>
      IF TitleLen(i) <= 200 /\ ContentLen(i) <= 10000
        THEN /\ Status(i) # 400
             /\ (Returned(i) /\ inv[i].error = NoError) => Status(i) = 201
        ELSE /\ Returned(i)
             /\ Status(i) = 400
             /\ (TitleLen(i) > 200) <=> (TitleTooLong \in Elems(inv[i].resp.details))
             /\ (ContentLen(i) > 10000) <=> (ContentTooLong \in Elems(inv[i].resp.details))

\* A title of exactly 200 and a content of exactly 10000 characters: created.
C8_Witness ==
  \E i \in Inv : Created(i) /\ TitleLen(i) = 200 /\ ContentLen(i) = 10000

\* C9: a valid request without status is stored with status "draft", and its
\* 201 response reports status "draft".
C9_DefaultDraft ==
  \A i \in Inv :
    (Created(i) /\ Body(i).status = Undefined) =>
      /\ inv[i].resp.post.status = Draft
      /\ inv[i].resp.post \in store

C9_Witness ==
  \E i \in Inv : Created(i) /\ Body(i).status = Undefined /\ inv[i].resp.post \in store

\* C10: every entry of a 200 response of get-posts is an item of the table
\* with status "published"; no item with status "draft" is listed.
C10_OnlyPublishedListed ==
  listResp.statusCode = 200 =>
    \A k \in 1..Len(listResp.items) :
      /\ listResp.items[k] \in store
      /\ listResp.items[k].status = Published
      /\ listResp.items[k].status # Draft

\* A list with an entry, returned while the index holds a draft.
C10_Witness ==
  /\ listResp.statusCode = 200
  /\ Len(listResp.items) > 0
  /\ \E r \in index : r.status = Draft

\* C11: a 200 response of get-posts is ordered by createdAt descending: of two
\* entries with different createdAt the later one comes first.
C11_NewestFirst ==
  listResp.statusCode = 200 =>
    \A k, l \in 1..Len(listResp.items) :
      listResp.items[k].createdAt > listResp.items[l].createdAt => k < l

\* A list of two posts created at different times.
C11_Witness ==
  /\ listResp.statusCode = 200
  /\ Len(listResp.items) = 2
  /\ listResp.items[1].createdAt > listResp.items[2].createdAt

PublishedInIndex == {r \in index : r.status = Published}

\* C12: a 200 response of get-posts holds at most 50 posts, and when the index
\* holds more than 50 published posts it holds exactly 50, none of them older
\* than a published post of the index that it lacks.
C12_NewestFifty ==
  listResp.statusCode = 200 =>
    /\ Len(listResp.items) <= 50
    /\ Cardinality(PublishedInIndex) > 50 =>
         /\ Len(listResp.items) = 50
         /\ Cardinality(Elems(listResp.items)) = 50
         /\ Elems(listResp.items) \subseteq PublishedInIndex
         /\ \A r \in PublishedInIndex \ Elems(listResp.items) :
              \A k \in 1..50 : listResp.items[k].createdAt >= r.createdAt

\* A list cut to 50 posts from an index that holds more.
C12_Witness ==
  /\ listResp.statusCode = 200
  /\ Len(listResp.items) = 50
  /\ Cardinality(PublishedInIndex) > 50

\* C13: a get-posts invocation whose query was answered while the index held no
\* published post returns 200 with the empty array as its body.
C13_EmptyListIs200 ==
  (/\ listResp.statusCode # 0
   /\ listResp.error = NoError
   /\ PublishedInIndex = {}) =>
    /\ listResp.statusCode = 200
    /\ listResp.array
    /\ listResp.items = << >>

\* The empty list returned from a table that holds only drafts.
C13_Witness ==
  /\ listResp.statusCode = 200
  /\ listResp.array
  /\ listResp.items = << >>
  /\ store # {}
  /\ \A r \in store : r.status = Draft

HasTags(p, tags) == "tags" \in DOMAIN p /\ p.tags = tags

\* C14: the post of a 201 response to a request that carries tags, and the
\* stored record of that post, hold the tags of the request.
C14_TagsKept ==
  \A i \in Inv :
    (Created(i) /\ Body(i).tags # Undefined) =>
      /\ HasTags(inv[i].resp.post, Body(i).tags)
      /\ \E r \in store : KeyOf(r) = KeyOf(inv[i].resp.post) /\ HasTags(r, Body(i).tags)

\* C15: every request whose body has a status property with a value other
\* than "draft" and "published" is answered 400 with the invalid-status
\* message among the details, and the invocation never reaches the store.
C15_StatusChecked ==
  \A i \in Inv :
    (/\ Parsed(i)
     /\ Body(i).kind = "object"
     /\ Body(i).status # Undefined
     /\ Body(i).status \notin {Str(Draft), Str(Published)}) =>
      /\ inv[i].pc # "sending"
      /\ Returned(i) => /\ Status(i) = 400
                        /\ StatusInvalid \in Elems(inv[i].resp.details)

\* C16: no step removes a record from the table or changes one (every record
\* of the table is a record of the table after the step), and a step in which
\* a get-posts invocation returns leaves the table as it was.
C16_CreateOnly ==
  [][/\ store \subseteq store'
     /\ listResp' # NoListResp => store' = store]_vars

\* A table with a record that a later create-post invocation tried to write
\* over, read by a get-posts invocation.
C16_Witness ==
  /\ store # {}
  /\ \E i \in Inv : Conflicted(i)
  /\ listResp.statusCode = 200

\* C17: every create-post invocation that was received returns, once, with
\* status 201, 400, 409 or 500, and every get-posts invocation with 200 or 500;
\* a store call is tried at most maxAttempts (3) times, and an invocation whose
\* store call failed every time returns 500.
C17_AlwaysReturns ==
  /\ \A i \in Inv : (inv[i].pc = "sending") ~> Returned(i)
  /\ [](\A i \in Inv :
          /\ inv[i].pc \in {"idle", "sending", "done"}
          /\ inv[i].pc = "sending" => inv[i].attempts < maxAttempts
          /\ Returned(i) => Status(i) \in {201, 400, 409, 500}
          /\ (Returned(i) /\ inv[i].error = "ServiceUnavailable") => Status(i) = 500)
  /\ [](/\ listResp.statusCode \in {0, 200, 500}
        /\ listResp.error # NoError => listResp.statusCode = 500)
  /\ [][\A i \in Inv : Returned(i) => inv'[i] = inv[i]]_vars

\* An invocation that returned 500 after its store call failed maxAttempts times.
C17_Witness ==
  \E i \in Inv :
    /\ Returned(i)
    /\ inv[i].error = "ServiceUnavailable"
    /\ Status(i) = 500

\* C18 as stated: a 500 response of either handler carries the detail message
\* exactly when NODE_ENV is not production.
C18_DetailOutsideProduction ==
  /\ \A i \in Inv :
       (Returned(i) /\ Status(i) = 500) =>
         (inv[i].resp.message # NoMessage <=> nodeEnv # "production")
  /\ listResp.statusCode = 500 =>
       (listResp.message # NoMessage <=> nodeEnv # "production")

\* C18: a 500 response of either handler carries the detail message exactly
\* when NODE_ENV is development; with production and with test it carries none.
C18_DetailInDevelopmentOnly ==
  /\ \A i \in Inv :
       (Returned(i) /\ Status(i) = 500) =>
         (inv[i].resp.message # NoMessage <=> nodeEnv = "development")
  /\ listResp.statusCode = 500 =>
       (listResp.message # NoMessage <=> nodeEnv = "development")

\* A 500 response of each handler without the detail message in test mode.
C18_Witness ==
  /\ nodeEnv = "test"
  /\ listResp.statusCode = 500
  /\ listResp.message = NoMessage
  /\ \E i \in Inv : Returned(i) /\ Status(i) = 500 /\ inv[i].resp.message = NoMessage

\* C19: PersonalBlogStack has three nested stacks, and at every point of every
\* deployment ApiStack exists only if DatabaseStack does and FrontendStack only
\* if ApiStack does.
C19_DeploymentOrder ==
  /\ Cardinality(NestedStacks) = 3
  /\ deployed \subseteq NestedStacks
  /\ "ApiStack" \in deployed => "DatabaseStack" \in deployed
  /\ "FrontendStack" \in deployed => "ApiStack" \in deployed

\* A deployment under way: the API answers while FrontendStack is not created.
C19_Witness ==
  /\ deployed = {"DatabaseStack", "ApiStack"}
  /\ \E i \in Inv : Created(i)

C21_NonEmptyStored ==
  \A r \in store : r.title # EmptyText /\ r.content # EmptyText

EdgeTrimmed(t) ==
  Len(t) > 0 => ~IsWhitespace(t[1].ch) /\ ~IsWhitespace(t[Len(t)].ch)

\* C22: the title and the content of every item of the table neither begin
\* nor end with a whitespace character.
C22_StoredTrimmed ==
  \A r \in store : EdgeTrimmed(r.title) /\ EdgeTrimmed(r.content)

\* The rule for status: a status that is present is "draft" or "published".
StatusRuleViolated(body) ==
  body.status # Undefined /\ body.status \notin {Str(Draft), Str(Published)}

\* C23: a request that violates a title rule, a content rule and the status
\* rule is answered with exactly three details, for the title, the content
\* and the status in this order; and a request is answered "Validation
\* failed" exactly when the list of its errors is not empty.
C23_AllErrorsInOrder ==
  \A i \in Inv :
    (Parsed(i) /\ Body(i).kind = "object" /\ Returned(i)) =>
      /\ (/\ TitleErrors(Body(i)) # << >>
          /\ ContentErrors(Body(i)) # << >>
          /\ StatusRuleViolated(Body(i))) =>
            /\ Status(i) = 400
            /\ Len(inv[i].resp.details) = 3
            /\ inv[i].resp.details[1] \in {TitleRequired, TitleTooLong}
            /\ inv[i].resp.details[2] \in {ContentRequired, ContentTooLong}
            /\ inv[i].resp.details[3] = StatusInvalid
      /\ inv[i].resp.error = "Validation failed" <=> inv[i].resp.details # << >>
      /\ inv[i].resp.error = "Validation failed" <=> ~validatePostData(Body(i)).isValid

\* C24: a create-post invocation returns 500 only after its store call has
\* failed: a request whose body parses is answered 201, 400 or 409 unless the
\* store was unavailable.
C24_No500OnParsedBody ==
  \A i \in Inv :
    (Returned(i) /\ Parsed(i) /\ inv[i].error # "ServiceUnavailable") =>
      /\ Status(i) \in {201, 400, 409}
      /\ Status(i) # 500

====
